---- MODULE Spec2Model ----
(***************************************************************************)
(* ASTROPATH: detection-to-geolocation fusion and persistence pipeline.    *)
(*                                                                         *)
(* Units.  Latitudes and longitudes are integers in hundredths of a       *)
(* degree (17.6599 deg -> 1766).  Area ratios are kept exact as the pair   *)
(* (box area, frame area) and compared by cross-multiplication.  Scores    *)
(* and classifier confidences are integers in thousandths.                *)
(*                                                                         *)
(* Python's None is the empty sequence <<>>; a present value x is <<x>>.   *)
(***************************************************************************)
EXTENDS Integers, Sequences, FiniteSets, TLC

VARIABLES
    config,     \* config.py switches read by the location chain
    drone,      \* EdgeDetectionPipeline.drone (DroneController) or absent;
                \* received: a telemetry message has arrived
    gps,        \* EdgeDetectionPipeline.gps (GPSHandler) or absent
    payload,    \* payload built by run() for the last accepted detection
    probe,      \* what each location source returned during that resolution
    classifier, \* SeverityEstimator.classifier is loaded
    est,        \* the last severity estimate: its inputs and its result
    prev,       \* the estimate before it
    db,         \* rows of the detections table, in insertion order
    detection_count,    \* DroneDetector.detection_count
    total_detections,   \* run_survey: total_detections
    frames_processed,   \* run_survey: frames_processed
    added,      \* rows that save_detection has added to the table
    lastFrame,  \* the last frame run_survey handled
    response,   \* the dashboard's answer to the last request
    settings,   \* run(): SAVE_DETECTIONS, ENABLE_CLOUD_UPLOAD, output_video given
    pc,         \* EdgeDetectionPipeline.run: "ready", "loop" or "done"
    exitPath,   \* how run() left: "none", "open_failed", "stop", "exception"
    vs,         \* the VideoStream of run()
    writer,     \* the cv2.VideoWriter of run(): "none", "open", "released"
    gpsConn,    \* EdgeDetectionPipeline.gps: "none", "open", "closed"
    frame_count,    \* EdgeDetectionPipeline.frame_count
    iter,       \* what the last iteration of the frame loop did
    flight,     \* DroneController.telemetry with altitude and heading
    proj,       \* the last call of pixel_to_ground_coords
    mission,    \* the last call of plan_survey_mission
    nmsRaw,     \* boxes and confidences the network put out for a frame
    nmsKept,    \* what detect_in_frame kept of them
    nmsAgain,   \* what its suppression stage keeps of nmsKept
    stream,     \* a VideoStream object: stopped, frame, cap
    capture,    \* its capture thread (VideoStream.update)
    consumer    \* the thread that calls read() and stop()

locVars == <<config, drone, gps, payload, probe>>
sevVars == <<classifier, est, prev>>
storeVars == <<db, detection_count, total_detections, frames_processed, added, lastFrame,
              response>>
pipeVars == <<settings, pc, exitPath, vs, writer, gpsConn, frame_count, iter>>
projVars == <<flight, proj, mission>>
nmsVars == <<nmsRaw, nmsKept, nmsAgain>>
camVars == <<stream, capture, consumer>>
vars == <<locVars, sevVars, storeVars, pipeVars, projVars, nmsVars, camVars>>

\* The variables an action of one component leaves alone.
notLoc == <<sevVars, storeVars, pipeVars, projVars, nmsVars, camVars>>
notSev == <<locVars, storeVars, pipeVars, projVars, nmsVars, camVars>>
notStore == <<locVars, sevVars, pipeVars, projVars, nmsVars, camVars>>
notPipe == <<locVars, sevVars, storeVars, projVars, nmsVars, camVars>>
notProj == <<locVars, sevVars, storeVars, pipeVars, nmsVars, camVars>>
notNms == <<locVars, sevVars, storeVars, pipeVars, projVars, camVars>>
notCam == <<locVars, sevVars, storeVars, pipeVars, projVars, nmsVars>>

None == <<>>
Some(x) == <<x>>
IsNone(o) == o = <<>>
Abs(x) == IF x < 0 THEN -x ELSE x

(***************************************************************************)
(* Bounds of the model.                                                    *)
(***************************************************************************)
MaxSentences == 2       \* NMEA lines delivered by the receiver in one poll
MaxNoFix == 2           \* cap on GPSHandler.no_fix_count

(***************************************************************************)
(* Program constants.                                                      *)
(***************************************************************************)
GPS_MAX_RETRIES == 20
GPS_MIN_SATS == 4
GPS_MIN_QUALITY == 1
FC_GPS_QUALITY == 2         \* 'gps_quality': 2 for a flight-controller fix
ONE_DEGREE == 100           \* abs(latitude) > 1, in hundredths of a degree

BOOL == {TRUE, FALSE}

\* config.py: the switches of the fallback chain.  GPS_USE_CACHED_IF_NO_FIX is
\* defined by config.py and read nowhere in the repository.
ConfigSpace ==
    [FALLBACK_GEOLOCATION : BOOL,
     USE_GPS_MODULE : BOOL,
     GPS_USE_CACHED_IF_NO_FIX : BOOL]

(***************************************************************************)
(* DroneController telemetry (drone_controller.py).                        *)
(***************************************************************************)
\* DroneController.__init__: the placeholder telemetry (Solapur).
InitialTelemetry == [latitude |-> 1766, longitude |-> 7591]

\* Positions a GLOBAL_POSITION_INT message can carry: a flight controller
\* without a fix sends 0/0; the others are real positions.
MavPositions ==
    { [latitude |-> 0, longitude |-> 0],
      [latitude |-> 50, longitude |-> 7500],
      [latitude |-> -3345, longitude |-> -7066] }

\* Outcomes of one MAVLink exchange: the link state and the message received.
MavOutcomes ==
    { [link |-> "ImportError", msg |-> None],
      [link |-> "error", msg |-> None],
      [link |-> "ok", msg |-> None] }
    \cup { [link |-> "ok", msg |-> Some(p)] : p \in MavPositions }

\* DroneController._get_mavlink_telemetry: self.telemetry after the call, which
\* is also the value returned.  Every failure path returns the stored telemetry.
GetTelemetry(telemetry, mav) ==
    IF mav.link = "ok" /\ ~IsNone(mav.msg) THEN mav.msg[1] ELSE telemetry

(***************************************************************************)
(* GPSHandler (gps_handler.py).                                            *)
(***************************************************************************)
\* One line read from the serial port.  "junk" stands for every line the loop
\* skips: an empty read, a non-position sentence, a parse error.  lat and lon
\* are the unsigned magnitudes of the sentence, lat_dir/lon_dir its hemisphere
\* letters.
Junk == [type |-> "junk", gps_qual |-> 0, num_sats |-> 0, status |-> "V",
         lat |-> 0, lat_dir |-> "N", lon |-> 0, lon_dir |-> "E"]

Sentences ==
    { Junk,
      [type |-> "GGA", gps_qual |-> 0, num_sats |-> 0, status |-> "V",
       lat |-> 1297, lat_dir |-> "N", lon |-> 7759, lon_dir |-> "E"],
      [type |-> "GGA", gps_qual |-> 1, num_sats |-> 5, status |-> "V",
       lat |-> 1297, lat_dir |-> "N", lon |-> 7759, lon_dir |-> "E"],
      [type |-> "GGA", gps_qual |-> 1, num_sats |-> 3, status |-> "V",
       lat |-> 1300, lat_dir |-> "N", lon |-> 7760, lon_dir |-> "E"],
      [type |-> "GGA", gps_qual |-> 2, num_sats |-> 8, status |-> "V",
       lat |-> 3345, lat_dir |-> "S", lon |-> 7066, lon_dir |-> "W"],
      [type |-> "RMC", gps_qual |-> 0, num_sats |-> 0, status |-> "A",
       lat |-> 0, lat_dir |-> "N", lon |-> 7800, lon_dir |-> "E"] }

\* The position a sentence states, in signed degrees: south and west negative.
\* This is also what pynmea2's msg.latitude / msg.longitude evaluate to.
SignedLatitude(s) == IF s.lat_dir = "S" THEN -s.lat ELSE s.lat
SignedLongitude(s) == IF s.lon_dir = "W" THEN -s.lon ELSE s.lon

\* gps_handler.py 184-189: fix quality of a parsed sentence.
SentenceQuality(s) ==
    IF s.type = "GGA" THEN s.gps_qual
    ELSE IF s.type = "RMC" THEN (IF s.status = "A" THEN 1 ELSE 0)
    ELSE 0

\* gps_handler.py 192: satellites in view; RMC carries none.
SentenceSats(s, min_sats) == IF s.type = "GGA" THEN s.num_sats ELSE min_sats

\* gps_handler.py 195: the acceptance test of a sentence.
AcceptsFix(s, min_sats) ==
    /\ s.type # "junk"
    /\ SentenceQuality(s) > 0
    /\ SentenceSats(s, min_sats) >= min_sats

\* gps_handler.py 197-204: latitude/longitude taken from an accepted sentence.
FixLatitude(s) ==
    LET lat == SignedLatitude(s) IN IF s.lat_dir = "S" THEN -lat ELSE lat
FixLongitude(s) ==
    LET lon == SignedLongitude(s) IN IF s.lon_dir = "W" THEN -lon ELSE lon

\* Index of the first accepted sentence among the lines read, 0 if there is none.
RECURSIVE FirstFix(_, _, _)
FirstFix(lines, i, min_sats) ==
    IF i > Len(lines) \/ i > GPS_MAX_RETRIES THEN 0
    ELSE IF AcceptsFix(lines[i], min_sats) THEN i
    ELSE FirstFix(lines, i + 1, min_sats)

\* GPSHandler.get_coordinates: the handler after the call and the tuple
\* (latitude, longitude, quality) returned.  Timestamps are not modelled.
GetCoordinates(g, lines) ==
    LET cached == [gps |-> g,
                   ret |-> [lat |-> g.last_valid_lat, lon |-> g.last_valid_lon,
                            quality |-> g.last_quality]]
        nothing == [gps |-> g,
                    ret |-> [lat |-> None, lon |-> None, quality |-> 0]]
        k == FirstFix(lines, 1, g.min_sats)
    IN  IF ~g.connected
        THEN (IF ~IsNone(g.last_valid_lat) THEN cached ELSE nothing)
        ELSE IF k > 0
        THEN LET s == lines[k]
                 lat == FixLatitude(s)
                 lon == FixLongitude(s)
                 q == SentenceQuality(s)
             IN  [gps |-> [g EXCEPT !.last_valid_lat = Some(lat),
                                    !.last_valid_lon = Some(lon),
                                    !.last_quality = q,
                                    !.no_fix_count = 0],
                  ret |-> [lat |-> Some(lat), lon |-> Some(lon), quality |-> q]]
        ELSE LET g2 == [g EXCEPT !.no_fix_count = g.no_fix_count + 1]
             IN  IF ~IsNone(g.last_valid_lat)
                 THEN [gps |-> g2,
                       ret |-> [lat |-> g.last_valid_lat, lon |-> g.last_valid_lon,
                                quality |-> g.last_quality]]
                 ELSE [gps |-> g2,
                       ret |-> [lat |-> None, lon |-> None, quality |-> 0]]

\* GPSHandler.__init__ followed by _connect: a fresh handler, connected or not.
NewGPSHandler(connected) ==
    [present |-> TRUE, connected |-> connected, min_sats |-> GPS_MIN_SATS,
     last_valid_lat |-> None, last_valid_lon |-> None, last_quality |-> 0,
     no_fix_count |-> 0]

\* EdgeDetectionPipeline.gps = None (GPS_ENABLED off or construction failed).
NoGPS ==
    [present |-> FALSE, connected |-> FALSE, min_sats |-> GPS_MIN_SATS,
     last_valid_lat |-> None, last_valid_lon |-> None, last_quality |-> 0,
     no_fix_count |-> 0]

(***************************************************************************)
(* SeverityEstimator (detect_edge.py) and the severity bands of            *)
(* DroneDetector.detect_in_frame (drone_detector.py).                      *)
(***************************************************************************)
MaxBox == 3             \* widest box drawn for the small frame

AREA_RATIO_LOW_PCT == 1         \* SEVERITY_THRESHOLDS["area_ratio_low"] = 0.01
AREA_RATIO_MEDIUM_PCT == 5      \* SEVERITY_THRESHOLDS["area_ratio_medium"] = 0.05
DRONE_LOW_PCT == 1              \* detect_in_frame: area_ratio < 0.01
DRONE_MEDIUM_PCT == 5           \* detect_in_frame: area_ratio < 0.05
SCORE_LOW == 300
SCORE_MEDIUM == 600
SCORE_HIGH == 900
SCORE_UNKNOWN == 500            \* return "Unknown", 0.5
CLASSIFIER_CONF_DEFAULT == 500  \* classifier_conf = 0.5

Min(a, b) == IF a < b THEN a ELSE b
Max(a, b) == IF a > b THEN a ELSE b

\* Python/numpy slice a[start:stop] on an axis of length n: its length.
SliceIndex(i, n) == IF i < 0 THEN Max(i + n, 0) ELSE Min(i, n)
SliceLen(start, stop, n) == Max(SliceIndex(stop, n) - SliceIndex(start, n), 0)

\* detect_edge.py 116-117: crop = frame[y:y+h, x:x+w]; crop.size.
CropSize(frame_shape, det) ==
    SliceLen(det.y, det.y + det.h, frame_shape[1])
        * SliceLen(det.x, det.x + det.w, frame_shape[2])

\* detect_edge.py 135-143: the band of an area ratio area/frame_area and its
\* heuristic score.
SeverityBandInclusive(area, frame_area) ==
    IF 100 * area <= AREA_RATIO_LOW_PCT * frame_area
    THEN [severity |-> "Low", score |-> SCORE_LOW]
    ELSE IF 100 * area <= AREA_RATIO_MEDIUM_PCT * frame_area
    THEN [severity |-> "Medium", score |-> SCORE_MEDIUM]
    ELSE [severity |-> "High", score |-> SCORE_HIGH]
SeverityBand(area, frame_area) ==
    IF 100 * area < AREA_RATIO_LOW_PCT * frame_area
    THEN [severity |-> "Low", score |-> SCORE_LOW]
    ELSE IF 100 * area < AREA_RATIO_MEDIUM_PCT * frame_area
    THEN [severity |-> "Medium", score |-> SCORE_MEDIUM]
    ELSE [severity |-> "High", score |-> SCORE_HIGH]

\* detect_edge.py 124-132: classifier_conf.  run is the outcome of
\* classifier.predict: it raises, or it returns conf.
ClassifierConf(loaded, run) ==
    IF loaded /\ ~run.raises THEN run.conf ELSE CLASSIFIER_CONF_DEFAULT

\* SeverityEstimator.estimate(frame, detection, frame_shape).
EstimateClassifierVotes(frame_shape, det, loaded, run) ==
    IF CropSize(frame_shape, det) = 0
    THEN [severity |-> "Unknown", score |-> SCORE_UNKNOWN]
    ELSE LET band == SeverityBand(det.w * det.h, frame_shape[1] * frame_shape[2])
             conf == ClassifierConf(loaded, run)
         IN  IF loaded
             THEN [severity |-> IF conf > SCORE_HIGH THEN "High" ELSE band.severity,
                   score |-> (band.score + conf) \div 2]
             ELSE band
Estimate(frame_shape, det, loaded, run) ==
    IF CropSize(frame_shape, det) = 0
    THEN [severity |-> "Unknown", score |-> SCORE_UNKNOWN]
    ELSE LET band == SeverityBand(det.w * det.h, frame_shape[1] * frame_shape[2])
             conf == ClassifierConf(loaded, run)
         IN  IF loaded
             THEN [severity |-> band.severity,
                   score |-> (band.score + conf) \div 2]
             ELSE band

\* DroneDetector.detect_in_frame 129-137: severity of a box that survived NMS.
DroneSeverity(w, h, width, height) ==
    IF 100 * (w * h) < DRONE_LOW_PCT * (width * height) THEN "Low"
    ELSE IF 100 * (w * h) < DRONE_MEDIUM_PCT * (width * height) THEN "Medium"
    ELSE "High"

\* Frames as frame.shape = (height, width), and the boxes a detector can hand
\* over for them: boxes may start left of or below the frame.
SmallFrame == <<10, 20>>
SpecFrame == <<500, 500>>
SmallBoxes ==
    { [x |-> o[1], y |-> o[2], w |-> w, h |-> h] :
        o \in {<<0, 0>>, <<-1, 0>>, <<2, 10>>}, w \in 0..MaxBox, h \in {1, 5} }
SpecBoxes ==
    { [x |-> 10, y |-> 10, w |-> 50, h |-> 50],
      [x |-> 10, y |-> 10, w |-> 49, h |-> 50],
      [x |-> 0, y |-> 0, w |-> 125, h |-> 100],
      [x |-> -5, y |-> 10, w |-> 50, h |-> 50] }
FrameInputs ==
    { <<SmallFrame, b>> : b \in SmallBoxes } \cup { <<SpecFrame, b>> : b \in SpecBoxes }

\* Outcomes of classifier.predict on the crop.
NoRun == [raises |-> FALSE, conf |-> CLASSIFIER_CONF_DEFAULT]
ClassifierRuns ==
    { [raises |-> TRUE, conf |-> CLASSIFIER_CONF_DEFAULT],
      [raises |-> FALSE, conf |-> 100],
      [raises |-> FALSE, conf |-> 1000] }

Summary(e) ==
    [area |-> e.det.w * e.det.h, frame_area |-> e.frame_shape[1] * e.frame_shape[2],
     empty |-> CropSize(e.frame_shape, e.det) = 0, drone |-> e.by = "DroneDetector",
     loaded |-> e.loaded, severity |-> e.severity]

\* SeverityEstimator.__init__: the classifier file exists and loads, or not.
NewSeverityEstimator ==
    /\ classifier' \in BOOL
    /\ classifier' # classifier
    /\ UNCHANGED <<est, prev, notSev>>

\* EdgeDetectionPipeline.process_frame 238: one call of estimate.
EstimateSeverity ==
    \E fb \in FrameInputs :
    \E run \in (IF classifier THEN ClassifierRuns ELSE {NoRun}) :
    \E r \in {Estimate(fb[1], fb[2], classifier, run)} :
        /\ est' = Some([by |-> "SeverityEstimator", frame_shape |-> fb[1],
                        det |-> fb[2], loaded |-> classifier, run |-> run,
                        severity |-> r.severity, score |-> r.score])
        /\ prev' = IF est = None THEN None ELSE Some(Summary(est[1]))
        /\ UNCHANGED <<classifier, notSev>>

\* DroneDetector.detect_in_frame 126-145: severity of one surviving box.
DroneDetectSeverity ==
    \E fb \in FrameInputs :
        /\ est' = Some([by |-> "DroneDetector", frame_shape |-> fb[1],
                        det |-> fb[2], loaded |-> FALSE, run |-> NoRun,
                        severity |-> DroneSeverity(fb[2].w, fb[2].h, fb[1][2], fb[1][1]),
                        score |-> 0])
        /\ prev' = IF est = None THEN None ELSE Some(Summary(est[1]))
        /\ UNCHANGED <<classifier, notSev>>

SevIdle == classifier = FALSE /\ est = None /\ prev = None

(***************************************************************************)
(* DetectionDatabase (database.py), the dashboard's POST /api/detections   *)
(* (dashboard.py) and DroneDetector.save_detection / run_survey            *)
(* (drone_detector.py).                                                    *)
(***************************************************************************)
MaxRows == 2            \* rows the table may hold
MaxFrames == 3          \* frames a survey reads
MaxDets == 2            \* detections in one frame

DETECTION_FRAME_SKIP == 2

\* A value of a dict entry or of a column: the key is absent, the value is
\* None/null, a number, or a string.
Absent == [kind |-> "absent", n |-> 0, s |-> ""]
Null == [kind |-> "null", n |-> 0, s |-> ""]
Num(n) == [kind |-> "num", n |-> n, s |-> ""]
Text(s) == [kind |-> "text", n |-> 0, s |-> s]

\* dict.get(key) and dict.get(key, default).
Get(v) == IF v.kind = "absent" THEN Null ELSE v
GetOr(v, default) == IF v.kind = "absent" THEN default ELSE v

\* database.py 43-62: the NOT NULL columns of the detections table among the
\* values add_detection binds.
NotNullViolated(row) ==
    \/ row.timestamp.kind = "null"
    \/ row.latitude.kind = "null"
    \/ row.longitude.kind = "null"
    \/ row.severity.kind = "null"
    \/ row.confidence.kind = "null"

\* DetectionDatabase.add_detection: the row it binds, the INSERT and commit,
\* then the log line that formats latitude and longitude with :.4f.
AddDetection(table, data) ==
    LET row == [id |-> Len(table) + 1,
                timestamp |-> Get(data.timestamp),
                latitude |-> Get(data.latitude),
                longitude |-> Get(data.longitude),
                severity |-> GetOr(data.severity, Text("Unknown")),
                confidence |-> GetOr(data.confidence, Num(0)),
                repair_status |-> "pending",
                repair_date |-> Null,
                notes |-> Null]
    IN  IF NotNullViolated(row)
        THEN [db |-> table, ret |-> -1]
        ELSE IF row.latitude.kind = "num" /\ row.longitude.kind = "num"
        THEN [db |-> Append(table, row), ret |-> row.id]
        ELSE [db |-> Append(table, row), ret |-> -1]

\* DroneDetector.save_detection 257-268: the dict it hands to add_detection.
DroneDetectionData(detection) ==
    [timestamp |-> Absent,
     latitude |-> Num(detection.ground[1]),
     longitude |-> Num(detection.ground[2]),
     severity |-> Text(detection.severity),
     confidence |-> Num(detection.confidence)]

\* DroneDetector.save_detection(frame, detection).  fs is the outcome of
\* writing the frame image; st is [db, detection_count, added].
SaveDetection(st, detection, fs) ==
    IF fs = "error"
    THEN st
    ELSE LET r == AddDetection(st.db, DroneDetectionData(detection))
         IN  [db |-> r.db,
              detection_count |-> st.detection_count + 1,
              added |-> st.added + (Len(r.db) - Len(st.db))]

\* run_survey 336-339: for detection in detections: save_detection(...).
RECURSIVE SaveAll(_, _, _, _)
SaveAll(st, detections, fs, i) ==
    IF i > Len(detections) THEN st
    ELSE SaveAll(SaveDetection(st, detections[i], fs[i]), detections, fs, i + 1)

\* What detect_in_frame returns for a frame: the boxes that passed the
\* confidence threshold (confidence > 0.5) and non-maximum suppression, with
\* the ground position pixel_to_ground_coords gives their centre.
Detections ==
    { [severity |-> sv, confidence |-> c, ground |-> <<1766, 7591>>] :
        sv \in {"Low", "High"}, c \in {550, 700} }
DetectionLists == UNION { [1..n -> Detections] : n \in 0..MaxDets }

\* One iteration of the run_survey loop (326-350) with auto_save_detections.
SurveyFrame ==
    /\ frames_processed < MaxFrames
    /\ \E detections \in (IF frames_processed % DETECTION_FRAME_SKIP = 0
                          THEN DetectionLists ELSE {<<>>}) :
       \E fs \in [1..Len(detections) -> {"ok", "error"}] :
       \E st \in {SaveAll([db |-> db, detection_count |-> detection_count,
                           added |-> added], detections, fs, 1)} :
          /\ db' = st.db
          /\ detection_count' = st.detection_count
          /\ added' = st.added
          /\ total_detections' = total_detections + Len(detections)
          /\ lastFrame' = Some([counter |-> frames_processed + 1,
                                ran |-> frames_processed % DETECTION_FRAME_SKIP = 0,
                                detections |-> Len(detections),
                                written |-> Cardinality({i \in 1..Len(fs) : fs[i] = "ok"}),
                                confidences |-> [i \in 1..Len(detections) |->
                                                    detections[i].confidence],
                                counted |-> st.detection_count - detection_count,
                                before |-> Len(db), after |-> Len(st.db)])
    /\ frames_processed' = frames_processed + 1
    /\ UNCHANGED <<response, notStore>>

\* Bodies a client can POST to /api/detections.
EarlyTime == "2026-01-01T00:00:00"
LateTime == "2026-01-02T00:00:00"
PostBody(ts, lat, sv, conf) ==
    [timestamp |-> ts, latitude |-> lat, longitude |-> Num(7591),
     severity |-> Text(sv), confidence |-> conf]
PostBodies ==
    { PostBody(Text(EarlyTime), Num(1766), sv, Num(700)) : sv \in {"Low", "Medium", "High"} }
    \cup { PostBody(Text(LateTime), Text("17.66N"), "Low", Num(700)),
           PostBody(Absent, Num(1766), "Low", Num(700)),
           PostBody(Null, Num(1766), "High", Num(700)),
           PostBody(Text(EarlyTime), Num(1766), "High", Absent) }

\* dashboard.py 126-154: POST /api/detections.
PostDetection ==
    /\ Len(db) < MaxRows
    /\ \E data \in PostBodies :
          LET complete == /\ data.timestamp.kind # "absent"
                          /\ data.latitude.kind # "absent"
                          /\ data.longitude.kind # "absent"
                          /\ data.severity.kind # "absent"
                          /\ data.confidence.kind # "absent"
              r == AddDetection(db, data)
          IN  /\ db' = IF complete THEN r.db ELSE db
              /\ response' = [op |-> "post",
                              code |-> IF ~complete THEN 400
                                       ELSE IF r.ret > 0 THEN 201 ELSE 500,
                              id |-> 0, limit |-> 0, data |-> <<>>]
    /\ UNCHANGED <<detection_count, total_detections, frames_processed, added,
                   lastFrame, notStore>>

\* DetectionDatabase.update_repair_status(detection_id, status, notes): the
\* UPDATE ... WHERE id = ?, and the value returned.
UpdateRepairStatusNoWhere(table, detection_id, status, notes) ==
    [db |-> [i \in 1..Len(table) |->
                [table[i] EXCEPT !.repair_status = status,
                                 !.repair_date = IF status = "pending" THEN Null
                                                 ELSE Text("now"),
                                 !.notes = Text(notes)]],
     ret |-> TRUE]
UpdateRepairStatus(table, detection_id, status, notes) ==
    [db |-> [i \in 1..Len(table) |->
                IF table[i].id = detection_id
                THEN [table[i] EXCEPT !.repair_status = status,
                                      !.repair_date = IF status = "pending" THEN Null
                                                      ELSE Text("now"),
                                      !.notes = Text(notes)]
                ELSE table[i]],
     ret |-> TRUE]

\* Bodies a client can PUT to /api/detections/<id>/status.
StatusBodies ==
    { [status |-> "", notes |-> ""],
      [status |-> "pending", notes |-> ""],
      [status |-> "completed", notes |-> "patched"],
      [status |-> "fixed", notes |-> ""] }

\* dashboard.py 156-178: PUT /api/detections/<id>/status.
PutRepairStatus ==
    /\ \E detection_id \in 1..(MaxRows + 1), body \in StatusBodies :
          LET r == UpdateRepairStatus(db, detection_id, body.status, body.notes)
          IN  /\ db' = IF body.status = "" THEN db ELSE r.db
              /\ response' = [op |-> "status",
                              code |-> IF body.status = "" THEN 400
                                       ELSE IF r.ret THEN 200 ELSE 500,
                              id |-> detection_id, limit |-> 0, data |-> <<>>]
    /\ UNCHANGED <<detection_count, total_detections, frames_processed, added,
                   lastFrame, notStore>>

\* ORDER BY timestamp DESC on the TEXT column: the orders in which the rows
\* may come back; rows with equal timestamps come in any order.
TimeRank(v) == IF v.s = LateTime THEN 2 ELSE IF v.s = EarlyTime THEN 1 ELSE 0
NewestFirst(table) ==
    { p \in [1..Len(table) -> 1..Len(table)] :
        /\ \A i, j \in 1..Len(table) : i # j => p[i] # p[j]
        /\ \A i, j \in 1..Len(table) :
              i < j => TimeRank(table[p[i]].timestamp) >= TimeRank(table[p[j]].timestamp) }

\* get_heatmap_data: severity_weights.get(row[2], 1).
SeverityWeightLinear(severity) ==
    IF severity.s = "Low" THEN 1 ELSE IF severity.s = "Medium" THEN 2
    ELSE IF severity.s = "High" THEN 3 ELSE 1
SeverityWeight(severity) ==
    IF severity.s = "Low" THEN 1 ELSE IF severity.s = "Medium" THEN 5
    ELSE IF severity.s = "High" THEN 10 ELSE 1

\* DetectionDatabase.get_heatmap_data(limit), the rows coming back in order p.
GetHeatmapData(table, limit, p) ==
    [k \in 1..(IF limit < 0 THEN Len(table) ELSE Min(limit, Len(table))) |->
        [latitude |-> table[p[k]].latitude,
         longitude |-> table[p[k]].longitude,
         severity |-> table[p[k]].severity,
         weight |-> SeverityWeight(table[p[k]].severity)]]

HEATMAP_LIMIT == 500    \* request.args.get('limit', 500, type=int)
HeatmapLimits == {1, HEATMAP_LIMIT}

\* dashboard.py 194-207: GET /api/heatmap.
GetHeatmap ==
    /\ \E limit \in HeatmapLimits, p \in NewestFirst(db) :
          response' = [op |-> "heatmap", code |-> 200, id |-> 0, limit |-> limit,
                       data |-> GetHeatmapData(db, limit, p)]
    /\ UNCHANGED <<db, detection_count, total_detections, frames_processed, added,
                   lastFrame, notStore>>

NoResponse == [op |-> "none", code |-> 0, id |-> 0, limit |-> 0, data |-> <<>>]

StoreIdle ==
    /\ db = <<>>
    /\ detection_count = 0
    /\ total_detections = 0
    /\ frames_processed = 0
    /\ added = 0
    /\ lastFrame = None
    /\ response = NoResponse

(***************************************************************************)
(* EdgeDetectionPipeline.run, process_frame, _send_to_api and VideoStream   *)
(* (detect_edge.py).                                                       *)
(***************************************************************************)
MaxStream == 2          \* frames the video source holds before end-of-stream
MaxTicks == 4           \* frames the loop of run() hands to process_frame

ACCEPT_CONFIDENCE == 600    \* process_frame: det['confidence'] < 0.6

\* VideoStream.__init__: cap not yet known to be open, no thread, no frame.
\* frame is the number of the latest captured frame, 0 for None.
NewVideoStream ==
    [opened |-> FALSE, thread |-> FALSE, stopped |-> FALSE, released |-> FALSE,
     frame |-> 0, delivered |-> 0, eos |-> FALSE]

\* VideoStream.stop.
VideoStreamStop(v) ==
    [v EXCEPT !.stopped = TRUE, !.released = v.opened, !.opened = FALSE]

\* What YOLODetector.detect returns for a frame: the confidences of the boxes
\* it kept (all above CONF_THRESHOLD).
DetectorConfidences == {550, 700}
DetectorOutputs == UNION { [1..n -> DetectorConfidences] : n \in 0..MaxDets }

\* Outcomes of requests.post: an HTTP status, or 0 when it raises (timeout,
\* connection refused).
PostOutcomes == {200, 201, 204, 0}

\* EdgeDetectionPipeline._send_to_api(payload): the POSTs made, whether the
\* "synced" line is logged, whether an exception leaves the method.
SendToApiRetrying(outcome) ==
    [posts |-> IF outcome \in {200, 201} THEN 1 ELSE 2,
     synced |-> outcome \in {200, 201}, raised |-> FALSE]
SendToApi(outcome) ==
    [posts |-> 1, synced |-> outcome = 200 \/ outcome = 201, raised |-> FALSE]

\* EdgeDetectionPipeline.process_frame(frame).  out is what the detector
\* returns if it is run, fault = "detect" makes detector.detect raise.
ProcessFrame(count, out, fault) ==
    LET n == count + 1
    IN  IF n % DETECTION_FRAME_SKIP # 0 /\ DETECTION_FRAME_SKIP > 1
        THEN [frame_count |-> n, ran |-> FALSE, detections |-> <<>>,
              estimates |-> 0, annotated |-> FALSE, raised |-> FALSE]
        ELSE IF fault = "detect"
        THEN [frame_count |-> n, ran |-> TRUE, detections |-> <<>>,
              estimates |-> 0, annotated |-> FALSE, raised |-> TRUE]
        ELSE LET kept == SelectSeq(out, LAMBDA c : ~(c < ACCEPT_CONFIDENCE))
             IN  [frame_count |-> n, ran |-> TRUE, detections |-> kept,
                  estimates |-> Len(kept), annotated |-> TRUE, raised |-> FALSE]

\* run() 297-301: VideoStream(source).start(); return if the capture did not
\* open; otherwise 311-314 create the writer and enter the loop.
StartRun ==
    /\ pc = "ready"
    /\ \E opened \in BOOL :
        /\ vs' = [vs EXCEPT !.opened = opened, !.thread = TRUE]
        /\ IF opened
           THEN /\ pc' = "loop"
                /\ writer' = IF settings.output_video /\ settings.SAVE_DETECTIONS
                             THEN "open" ELSE "none"
                /\ exitPath' = exitPath
           ELSE /\ pc' = "done"
                /\ writer' = writer
                /\ exitPath' = "open_failed"
    /\ UNCHANGED <<settings, gpsConn, frame_count, iter, notPipe>>

\* VideoStream.update, one turn of the capture thread's loop that changes
\* something: the source delivers its next frame, or reaches its end, after
\* which every cap.read() fails and the thread sleeps and tries again.
CaptureStep ==
    /\ vs.thread /\ ~vs.stopped /\ vs.opened /\ ~vs.eos
    /\ \/ /\ vs.delivered < MaxStream
          /\ vs' = [vs EXCEPT !.delivered = @ + 1, !.frame = vs.delivered + 1]
       \/ vs' = [vs EXCEPT !.eos = TRUE]
    /\ UNCHANGED <<settings, pc, exitPath, writer, gpsConn, frame_count, iter, notPipe>>

\* run() 316-403: one turn of the frame loop on a frame vs.read() returned (a
\* turn that reads None sleeps and changes nothing), with the finally block
\* when the turn leaves the loop.
LoopIteration ==
    /\ pc = "loop"
    /\ vs.frame # 0
    /\ frame_count < MaxTicks
    /\ \E fault \in {"none", "detect", "display"} :
       \E out \in (IF (frame_count + 1) % DETECTION_FRAME_SKIP = 0 /\ fault # "detect"
                   THEN DetectorOutputs ELSE {<<>>}) :
       \E r \in {ProcessFrame(frame_count, out, fault)} :
       \E saving \in {~r.raised /\ r.detections # <<>> /\ settings.SAVE_DETECTIONS} :
       \E n \in {IF saving THEN Len(r.detections) ELSE 0} :
       \E outcomes \in [1..(IF settings.ENABLE_CLOUD_UPLOAD THEN n ELSE 0) -> PostOutcomes] :
       \E key \in (IF fault = "none" THEN {"none", "q"} ELSE {"none"}) :
       \E reports \in {[i \in 1..Len(outcomes) |->
                          [status |-> outcomes[i],
                           posts |-> SendToApi(outcomes[i]).posts,
                           synced |-> SendToApi(outcomes[i]).synced,
                           raised |-> SendToApi(outcomes[i]).raised]]} :
       \E raised \in {\/ r.raised \/ fault = "display"
                      \/ \E i \in 1..Len(reports) : reports[i].raised} :
       \E leave \in {raised \/ key = "q"} :
          /\ frame_count' = r.frame_count
          /\ iter' = Some([frame |-> vs.frame,
                           again |-> iter # None /\ iter[1].frame = vs.frame,
                           eos |-> vs.eos,
                           counter |-> r.frame_count,
                           ran |-> r.ran,
                           annotated |-> r.annotated,
                           accepted |-> Len(r.detections),
                           estimates |-> r.estimates,
                           images |-> n,
                           resolutions |-> n,
                           reports |-> reports,
                           fault |-> fault,
                           key |-> key,
                           raised |-> raised])
          /\ pc' = IF leave THEN "done" ELSE "loop"
          /\ exitPath' = IF raised THEN "exception" ELSE IF leave THEN "stop" ELSE exitPath
          /\ vs' = IF leave THEN VideoStreamStop(vs) ELSE vs
          /\ writer' = IF leave /\ writer = "open" THEN "released" ELSE writer
          /\ gpsConn' = IF leave /\ gpsConn = "open" THEN "closed" ELSE gpsConn
    /\ UNCHANGED <<settings, notPipe>>

PipeIdle ==
    /\ settings = [SAVE_DETECTIONS |-> TRUE, ENABLE_CLOUD_UPLOAD |-> TRUE,
                   output_video |-> TRUE]
    /\ pc = "ready"
    /\ exitPath = "none"
    /\ vs = NewVideoStream
    /\ writer = "none"
    /\ gpsConn = "none"
    /\ frame_count = 0
    /\ iter = None

(***************************************************************************)
(* DroneController.pixel_to_ground_coords (drone_controller.py).           *)
(* Latitude and longitude of the telemetry are in hundredths of a degree,  *)
(* the projected position in millionths; lengths are in millimetres;       *)
(* sines, cosines and tangents are in thousandths.  Pixel coordinates are  *)
(* doubled, so that the centre of a frame of odd width is a whole number.  *)
(***************************************************************************)
MaxAltitude == 2        \* altitudes 1 .. MaxAltitude metres, and the default

DRONE_DEFAULT_ALTITUDE == 50
TAN_HALF_FOV_H == 1000      \* tan(90 degrees / 2)
TAN_HALF_FOV_V == 577       \* tan(60 degrees / 2)
METRES_PER_DEGREE == 111320

\* math.cos and math.sin of the heading, math.cos of the latitude.
CosHeading(h) == CASE h = 0 -> 1000 [] h = 90 -> 0 [] h = 180 -> -1000 [] OTHER -> 0
SinHeading(h) == CASE h = 0 -> 0 [] h = 90 -> 1000 [] h = 180 -> 0 [] OTHER -> -1000
CosLatitude(lat) ==
    CASE lat = 1766 -> 953 [] lat = -3345 -> 834 [] OTHER -> 500

\* Integer quotient rounded toward zero.
Quot(a, b) == IF a >= 0 THEN a \div b ELSE -((-a) \div b)

\* DroneController.__init__ 39-46.
InitialFlight ==
    [latitude |-> 1766, longitude |-> 7591,
     altitude |-> DRONE_DEFAULT_ALTITUDE, heading |-> 0]

\* norm = pixel / frame - 0.5, as a fraction over 2 * frame; offset = norm *
\* ground, in millimetres.
OffsetNotCentred(pixel2, frame, altitude, tanHalfFov) ==
    Quot(pixel2 * (2 * altitude * tanHalfFov), 2 * frame)
Offset(pixel2, frame, altitude, tanHalfFov) ==
    Quot((pixel2 - frame) * (2 * altitude * tanHalfFov), 2 * frame)

\* pixel_to_ground_coords(pixel_x, pixel_y, frame_width, frame_height) on
\* telemetry t, with pixel2 = (2 * pixel_x, 2 * pixel_y).
PixelToGroundCoords(t, pixel2, frame_width, frame_height) ==
    LET offset_x == Offset(pixel2[1], frame_width, t.altitude, TAN_HALF_FOV_H)
        offset_y == Offset(pixel2[2], frame_height, t.altitude, TAN_HALF_FOV_V)
        rotated_x == Quot(offset_x * CosHeading(t.heading)
                            - offset_y * SinHeading(t.heading), 1000)
        rotated_y == Quot(offset_x * SinHeading(t.heading)
                            + offset_y * CosHeading(t.heading), 1000)
        lat_offset == Quot(rotated_y * 1000, METRES_PER_DEGREE)
        lon_offset == Quot(rotated_x * 1000,
                           Quot(METRES_PER_DEGREE * CosLatitude(t.latitude), 1000))
    IN  <<t.latitude * 10000 + lat_offset, t.longitude * 10000 + lon_offset>>

FlightPositions == {<<1766, 7591>>, <<-3345, -7066>>, <<6000, 1000>>}
Altitudes == 1..MaxAltitude \cup {DRONE_DEFAULT_ALTITUDE}
Headings == {0, 90, 180, 270}
FrameSizes == {<<640, 480>>, <<1920, 1080>>, <<5, 3>>}
AreaSides == {0, 2, 5}      \* sides of a survey area, metres

\* DroneController.set_telemetry(lat, lon, alt, heading).
SetTelemetry ==
    /\ \E pos \in FlightPositions, alt \in Altitudes, heading \in Headings :
          flight' = [latitude |-> pos[1], longitude |-> pos[2],
                     altitude |-> alt, heading |-> heading]
    /\ UNCHANGED <<proj, mission, notProj>>

\* One call of pixel_to_ground_coords: the frame's centre, a corner, or the
\* pixel next to the centre.
ProjectPixel ==
    /\ \E size \in FrameSizes :
       \E pixel2 \in {<<size[1], size[2]>>, <<0, 0>>, <<2 * size[1], 2 * size[2]>>,
                      <<size[1] + 2, size[2]>>} :
          proj' = Some([telemetry |-> flight, frame |-> size, pixel2 |-> pixel2,
                        ground |-> PixelToGroundCoords(flight, pixel2, size[1], size[2])])
    /\ UNCHANGED <<flight, mission, notProj>>

DRONE_SURVEY_OVERLAP == 30
DRONE_SURVEY_ALTITUDE == 50

\* get_ground_coverage(): width and height of the ground in view at the
\* telemetry altitude, in millimetres.
GetGroundCoverage(t) ==
    <<2 * t.altitude * TAN_HALF_FOV_H, 2 * t.altitude * TAN_HALF_FOV_V>>

\* plan_survey_mission 282-289: the waypoint of column j of row i.
Waypoint(start, i, j, spacing_width, spacing_length, altitude) ==
    LET offset_x == j * spacing_width
        offset_y == i * spacing_length
    IN  [lat |-> start[1] * 10000 + Quot(offset_y * 1000, METRES_PER_DEGREE),
         lon |-> start[2] * 10000
                   + Quot(offset_x * 1000,
                          Quot(METRES_PER_DEGREE * CosLatitude(start[1]), 1000)),
         alt |-> altitude, row |-> i, column |-> j]

\* plan_survey_mission(start_lat, start_lon, area_width, area_length, altitude,
\* overlap) on telemetry t; the area in metres; None and 0 take the defaults
\* ("altitude or ...", "overlap or ...").  rows = num_passes_length, columns =
\* num_passes_width; waypoints are appended in the order of the two loops.
PlanSurveyMission(t, start, area_width, area_length, altitudeArg, overlapArg) ==
    LET altitude == IF IsNone(altitudeArg) \/ altitudeArg = Some(0)
                    THEN DRONE_SURVEY_ALTITUDE ELSE altitudeArg[1]
        overlap == IF IsNone(overlapArg) \/ overlapArg = Some(0)
                   THEN DRONE_SURVEY_OVERLAP ELSE overlapArg[1]
        ground == GetGroundCoverage(t)
        spacing_width == (ground[1] * (100 - overlap)) \div 100
        spacing_length == (ground[2] * (100 - overlap)) \div 100
        columns == (area_width * 1000) \div spacing_width + 1
        rows == (area_length * 1000) \div spacing_length + 1
    IN  [ground |-> ground, overlap |-> overlap,
         spacing_width |-> spacing_width, spacing_length |-> spacing_length,
         rows |-> rows, columns |-> columns,
         waypoints |-> [k \in 1..(rows * columns) |->
                          Waypoint(start, (k - 1) \div columns, (k - 1) % columns,
                                   spacing_width, spacing_length, altitude)]]

\* One call of plan_survey_mission from the vehicle's position.
PlanMission ==
    /\ \E area_width \in AreaSides, area_length \in AreaSides,
          overlapArg \in {None, Some(50)} :
          mission' = Some(PlanSurveyMission(flight, <<flight.latitude, flight.longitude>>,
                                            area_width, area_length, None, overlapArg))
    /\ UNCHANGED <<flight, proj, notProj>>

ProjIdle == flight = InitialFlight /\ proj = None /\ mission = None

(***************************************************************************)
(* Non-maximum suppression in DroneDetector.detect_in_frame                *)
(* (drone_detector.py 99-145).  cv2.dnn.NMSBoxes is OpenCV's; it is        *)
(* modelled as the greedy suppression the specification describes.         *)
(***************************************************************************)
MaxRaw == 3             \* boxes the network puts out for one frame

CONF_THRESHOLD == 500       \* config.CONF_THRESHOLD = 0.5
NMS_THRESHOLD == 400        \* config.NMS_THRESHOLD = 0.4

BoxArea(b) == b.w * b.h
IntersectionArea(a, b) ==
    Max(0, Min(a.x + a.w, b.x + b.w) - Max(a.x, b.x))
        * Max(0, Min(a.y + a.h, b.y + b.h) - Max(a.y, b.y))
\* IoU(a, b) > threshold, the threshold in thousandths.
IoUExceeds(a, b, threshold) ==
    LET i == IntersectionArea(a, b)
        u == BoxArea(a) + BoxArea(b) - i
    IN  1000 * i > threshold * u

\* The indices 1..n ordered by descending score, equal scores in index order.
RECURSIVE ByScoreDescending(_, _)
ByScoreDescending(scores, todo) ==
    IF todo = {} THEN <<>>
    ELSE LET best == CHOOSE i \in todo :
                        \A j \in todo : \/ scores[i] > scores[j]
                                        \/ (scores[i] = scores[j] /\ i <= j)
         IN  <<best>> \o ByScoreDescending(scores, todo \ {best})

\* Greedy pass over the ordered indices: an index is kept if its box does not
\* overlap a box kept before it by more than the threshold.
RECURSIVE GreedyKeep(_, _, _, _, _)
GreedyKeep(boxes, order, k, kept, nms_threshold) ==
    IF k > Len(order) THEN kept
    ELSE LET i == order[k]
             keep == \A j \in 1..Len(kept) :
                         ~IoUExceeds(boxes[i], boxes[kept[j]], nms_threshold)
         IN  GreedyKeep(boxes, order, k + 1,
                        IF keep THEN Append(kept, i) ELSE kept, nms_threshold)

\* cv2.dnn.NMSBoxes(boxes, scores, score_threshold, nms_threshold): the indices
\* kept.
NMSBoxes(boxes, scores, score_threshold, nms_threshold) ==
    GreedyKeep(boxes,
               ByScoreDescending(scores, {i \in 1..Len(boxes) : scores[i] > score_threshold}),
               1, <<>>, nms_threshold)

\* detect_in_frame 119-145: the suppression stage, from boxes and confidences
\* to the detections returned.
SuppressSkippingFirst(boxes, confidences) ==
    IF Len(boxes) > 0
    THEN LET indices == NMSBoxes(boxes, confidences, CONF_THRESHOLD, NMS_THRESHOLD)
         IN  [k \in 1..(Len(indices) - 1) |->
                 [bbox |-> boxes[indices[k + 1]], confidence |-> confidences[indices[k + 1]]]]
    ELSE <<>>
Suppress(boxes, confidences) ==
    IF Len(boxes) > 0
    THEN LET indices == NMSBoxes(boxes, confidences, CONF_THRESHOLD, NMS_THRESHOLD)
         IN  [k \in 1..Len(indices) |->
                 [bbox |-> boxes[indices[k]], confidence |-> confidences[indices[k]]]]
    ELSE <<>>

\* detect_in_frame 99-117: the boxes whose confidence exceeds CONF_THRESHOLD.
Confident(raw) == SelectSeq(raw, LAMBDA d : d.confidence > CONF_THRESHOLD)

BoxesOf(dets) == [k \in 1..Len(dets) |-> dets[k].bbox]
ConfidencesOf(dets) == [k \in 1..Len(dets) |-> dets[k].confidence]

\* Network outputs: boxes that overlap by 3/7 (x = 0, 4, 8), one that overlaps
\* the first by exactly 0.4, confidences at and above the threshold.
RawBoxes ==
    { [x |-> 0, y |-> 0, w |-> 10, h |-> 10], [x |-> 4, y |-> 0, w |-> 10, h |-> 10],
      [x |-> 8, y |-> 0, w |-> 10, h |-> 10], [x |-> 0, y |-> 0, w |-> 4, h |-> 10] }
RawDetections == [bbox : RawBoxes, confidence : {500, 700, 900}]
RawOutputs == UNION { [1..n -> RawDetections] : n \in 0..MaxRaw }

\* detect_in_frame 109-115: x = int(center_x - w / 2), y = int(center_y - h / 2);
\* the centre a box was made from (widths and heights are even).
CenterOf(bbox) == <<bbox.x + bbox.w \div 2, bbox.y + bbox.h \div 2>>

\* center_x, center_y when the loop over the network output (102-118) has
\* ended: those of the last box that passed the confidence test.
CenterAfterLoop(confident) ==
    IF confident = <<>> THEN <<0, 0>> ELSE CenterOf(confident[Len(confident)].bbox)

\* detect_in_frame 139-145: the dict appended for each kept index, its 'center'
\* being [center_x, center_y].
DetectionDicts(kept, center) ==
    [k \in 1..Len(kept) |->
        [bbox |-> kept[k].bbox, center |-> center, confidence |-> kept[k].confidence]]

\* detect_in_frame on the frame whose network output is nmsRaw.
DetectInFrame ==
    /\ nmsKept = None
    /\ nmsKept' = Some(DetectionDicts(Suppress(BoxesOf(Confident(nmsRaw)),
                                               ConfidencesOf(Confident(nmsRaw))),
                                      CenterAfterLoop(Confident(nmsRaw))))
    /\ UNCHANGED <<nmsRaw, nmsAgain, notNms>>

\* The suppression stage applied to the detections detect_in_frame returned.
SuppressAgain ==
    /\ nmsKept # None /\ nmsAgain = None
    /\ nmsAgain' = Some(Suppress(BoxesOf(nmsKept[1]), ConfidencesOf(nmsKept[1])))
    /\ UNCHANGED <<nmsRaw, nmsKept, notNms>>

NmsIdle == nmsRaw = <<>> /\ nmsKept = None /\ nmsAgain = None

(***************************************************************************)
(* VideoStream (detect_edge.py 418-457), statement by statement: the       *)
(* capture thread running update() against a consumer thread that calls    *)
(* read() and then stop().  Frames are numbered in capture order, 0 is     *)
(* None.                                                                   *)
(***************************************************************************)
MaxCapture == 2         \* frames the device delivers
MaxReads == 2           \* calls of read() by the consumer

\* VideoStream.__init__: the capture opened or not, no thread, no frame.
\* capture.held is the frame cap.read() returned and update() has not stored
\* yet; capture.stored is the number of the last frame it stored;
\* capture.late records a use of the device (or a store into the slot) by the
\* thread after stop() released the device.
NewStream(opened) ==
    [stopped |-> FALSE, frame |-> 0, cap |-> IF opened THEN "open" ELSE "closed"]
NoThread == [pc |-> "none", held |-> 0, delivered |-> 0, stored |-> 0, late |-> "no"]
NoConsumer == [pc |-> "idle", reads |-> <<>>]

\* update() 445-446: with self.lock: self.frame = frame.
StoreKeepingFirst(slot, frame) == IF slot = 0 THEN frame ELSE slot
Store(slot, frame) == frame

\* read() 448-450: a copy of the slot, None while it is empty.
ReadSlot(slot) == slot

\* start(): the thread is created and begins update().
Start ==
    /\ capture.pc = "none" /\ consumer.pc = "idle"
    /\ capture' = [capture EXCEPT !.pc = "test"]
    /\ consumer' = [consumer EXCEPT !.pc = "running"]
    /\ UNCHANGED <<stream, notCam>>

\* update() 435-437: the loop test, then the call of cap.read().
UpdateTest ==
    /\ capture.pc = "test"
    /\ capture' = IF stream.stopped
                  THEN [capture EXCEPT !.pc = "exited"]
                  ELSE [capture EXCEPT !.pc = "reading",
                           !.late = IF stream.cap = "released" THEN "read" ELSE @]
    /\ UNCHANGED <<stream, consumer, notCam>>

\* update() 437-443: cap.read() returns.  It yields the next frame of an open
\* device, or fails (no frame yet, end of stream, device closed); the thread
\* then sleeps 10 ms and tests the loop condition again.  On a device released
\* while the call was in progress either can happen.
UpdateReadReturns ==
    /\ capture.pc = "reading"
    /\ \/ /\ stream.cap # "closed" /\ capture.delivered < MaxCapture
          /\ capture' = [capture EXCEPT !.pc = "store",
                            !.held = capture.delivered + 1,
                            !.delivered = capture.delivered + 1,
                            !.late = IF stream.cap = "released" THEN "read" ELSE @]
       \/ capture' = [capture EXCEPT !.pc = "test"]
    /\ UNCHANGED <<stream, consumer, notCam>>

\* update() 445-446: the frame is stored into the slot under the lock.
UpdateStore ==
    /\ capture.pc = "store"
    /\ stream' = [stream EXCEPT !.frame = Store(stream.frame, capture.held)]
    /\ capture' = [capture EXCEPT !.pc = "test", !.stored = capture.held,
                      !.late = IF stream.cap = "released" THEN "store" ELSE @]
    /\ UNCHANGED <<consumer, notCam>>

\* read(), called by the consumer while it runs its loop.  Each read is kept
\* with the number of the last frame the capture thread had stored by then.
Read ==
    /\ consumer.pc = "running" /\ Len(consumer.reads) < MaxReads
    /\ consumer' = [consumer EXCEPT !.reads =
                       Append(@, [frame |-> ReadSlot(stream.frame),
                                  stored |-> capture.stored])]
    /\ UNCHANGED <<stream, capture, notCam>>

\* stop() 453: self.stopped = True.
StopSignal ==
    /\ consumer.pc = "running"
    /\ stream' = [stream EXCEPT !.stopped = TRUE]
    /\ consumer' = [consumer EXCEPT !.pc = "join"]
    /\ UNCHANGED <<capture, notCam>>

\* stop() 454-455: thread.join(timeout=0.5) returns, the thread having exited,
\* or the half second having passed while the thread is inside cap.read()
\* (the only statement of update() that can take that long).
StopJoin ==
    /\ consumer.pc = "join"
    /\ capture.pc \in {"exited", "reading"}
    /\ consumer' = [consumer EXCEPT !.pc = "release"]
    /\ UNCHANGED <<stream, capture, notCam>>

\* stop() 456-457: the capture is released if it is open.
StopRelease ==
    /\ consumer.pc = "release"
    /\ stream' = [stream EXCEPT !.cap = IF @ = "open" THEN "released" ELSE @]
    /\ consumer' = [consumer EXCEPT !.pc = "stopped"]
    /\ UNCHANGED <<capture, notCam>>

CamIdle == stream = NewStream(FALSE) /\ capture = NoThread /\ consumer = NoConsumer

(***************************************************************************)
(* utils.get_geolocation and utils.create_detection_payload.                *)
(***************************************************************************)
\* The coordinate pairs the gpsd session or the IP service can answer with.
GpsdAnswers == { None, Some(<<4050, -7400>>) }
IpAnswers == { None, Some(<<1297, 7759>>), Some(<<0, 0>>) }

\* utils.get_geolocation line 82: the static default, "no location".
DefaultCoordinate == <<0, 0>>

\* utils.get_geolocation: the pair returned, the branch that returned it, and
\* whether the IP service was asked.  gpsd = None is a failed gpsd session,
\* ip = None a failed IP lookup or one without a latlng.
GetGeolocation(cfg, gpsd, ip) ==
    IF cfg.USE_GPS_MODULE /\ ~IsNone(gpsd)
    THEN [latlon |-> gpsd[1], from |-> "gpsd", ipAsked |-> FALSE]
    ELSE IF cfg.FALLBACK_GEOLOCATION /\ ~IsNone(ip)
    THEN [latlon |-> ip[1], from |-> "ip", ipAsked |-> TRUE]
    ELSE [latlon |-> DefaultCoordinate, from |-> "default",
          ipAsked |-> cfg.FALLBACK_GEOLOCATION]

\* Python's `x or 0.0` on an optional number.
OrZero(o) == IF IsNone(o) \/ o = Some(0) THEN 0 ELSE o[1]

\* utils.create_detection_payload followed by payload.update(gps_meta): the
\* location part of the payload (severity, confidence, class and image are
\* copied from the detection and are not part of the location chain).
CreateDetectionPayload(chosen_lat, chosen_lon, gps_meta) ==
    [latitude |-> OrZero(chosen_lat),
     longitude |-> OrZero(chosen_lon),
     location_source |-> gps_meta.location_source,
     gps_quality |-> gps_meta.gps_quality]

EmptyMeta == [location_source |-> None, gps_quality |-> None]

(***************************************************************************)
(* EdgeDetectionPipeline.run, lines 331-381: the location of one accepted  *)
(* detection.                                                              *)
(***************************************************************************)
\* detect_edge.py 339: the flight-controller coordinate is usable.
FlightControllerValidNoAbs(telemetry) == telemetry.latitude > ONE_DEGREE
FlightControllerValid(telemetry) == Abs(telemetry.latitude) > ONE_DEGREE

\* detect_edge.py 353: the GPS handler's answer is usable.
LocalGpsValid(ret) == ~IsNone(ret.lat) /\ ret.quality >= GPS_MIN_QUALITY

NoProbe ==
    [fcAsked |-> FALSE, fc |-> InitialTelemetry,
     gpsAsked |-> FALSE, gpsFix |-> None, gpsCache |-> None,
     gpsRet |-> [lat |-> None, lon |-> None, quality |-> 0],
     geoAsked |-> FALSE, ipAsked |-> FALSE, gpsd |-> None, ip |-> None,
     supplier |-> "none"]

NoMav == [link |-> "ok", msg |-> None]

\* Step 1 (335-348).
StepFlightController(d, mav) ==
    LET tel == GetTelemetry(d.telemetry, mav)
    IN  IF d.present /\ FlightControllerValid(tel)
        THEN [lat |-> Some(tel.latitude), lon |-> Some(tel.longitude),
              meta |-> [location_source |-> Some("flight_controller"),
                        gps_quality |-> Some(FC_GPS_QUALITY)]]
        ELSE [lat |-> None, lon |-> None, meta |-> EmptyMeta]

\* Step 2 (350-360), given the answer of gps.get_coordinates().
StepLocalGps(chosen, ret) ==
    IF LocalGpsValid(ret)
    THEN [lat |-> ret.lat, lon |-> ret.lon,
          meta |-> [location_source |-> Some("local_gps_module"),
                    gps_quality |-> Some(ret.quality)]]
    ELSE chosen

\* Step 3 (362-366), given the answer of get_geolocation().
StepIpFallbackSwapped(geo) ==
    [lat |-> Some(geo.latlon[2]), lon |-> Some(geo.latlon[1]),
     meta |-> [location_source |-> Some("ip_geolocation"), gps_quality |-> None]]
StepIpFallback(geo) ==
    [lat |-> Some(geo.latlon[1]), lon |-> Some(geo.latlon[2]),
     meta |-> [location_source |-> Some("ip_geolocation"), gps_quality |-> None]]

\* The receiver's own position for the poll: the first acceptable sentence, in
\* signed degrees, or None when the poll holds none (or the port is closed).
ReportedFix(g, lines) ==
    LET k == FirstFix(lines, 1, g.min_sats)
    IN  IF g.connected /\ k > 0
        THEN Some(<<SignedLatitude(lines[k]), SignedLongitude(lines[k]),
                    SentenceQuality(lines[k])>>)
        ELSE None

CacheOf(g) ==
    IF IsNone(g.last_valid_lat) THEN None
    ELSE Some(<<g.last_valid_lat[1], g.last_valid_lon[1], g.last_quality>>)

\* Sequences of at most MaxSentences lines.
Polls == UNION { [1..n -> Sentences] : n \in 0..MaxSentences }

\* detect_edge.py 351: the GPS handler is polled.
AskGps(s1) == IsNone(s1.lat) /\ gps.present

\* detect_edge.py 363: the geolocation fallback is queried.
AskGeoWhateverChosen(s2) == config.FALLBACK_GEOLOCATION
AskGeo(s2) == IsNone(s2.lat) /\ config.FALLBACK_GEOLOCATION

\* One pass of lines 331-381 for one accepted detection.  Each intermediate
\* value is bound once (\E v \in {e}) in the order the code computes it; a
\* source is drawn only when the chain reaches it.
ResolveLocation ==
    \E mav \in (IF drone.present THEN MavOutcomes ELSE {NoMav}) :
    \E tel \in {IF drone.present THEN GetTelemetry(drone.telemetry, mav)
                 ELSE drone.telemetry} :
    \E s1 \in {StepFlightController(drone, mav)} :
    \E askGps \in {AskGps(s1)} :
    \E lines \in (IF askGps THEN Polls ELSE {<<>>}) :
    \E gc \in {IF askGps THEN GetCoordinates(gps, lines)
                  ELSE [gps |-> gps, ret |-> NoProbe.gpsRet]} :
    \E s2 \in {IF askGps THEN StepLocalGps(s1, gc.ret) ELSE s1} :
    \E askGeo \in {AskGeo(s2)} :
    \E gpsd \in (IF askGeo /\ config.USE_GPS_MODULE THEN GpsdAnswers ELSE {None}),
           ip \in (IF askGeo THEN IpAnswers ELSE {None}) :
    \E geo \in {GetGeolocation(config, gpsd, ip)} :
    \E s3 \in {IF askGeo THEN StepIpFallback(geo) ELSE s2} :
    \E fix \in {ReportedFix(gps, lines)} :
          /\ askGps => gps.no_fix_count < MaxNoFix
          /\ drone' = [drone EXCEPT !.telemetry = tel,
                                    !.received = @ \/ (drone.present /\ mav.link = "ok"
                                                          /\ ~IsNone(mav.msg))]
          /\ gps' = gc.gps
          /\ payload' = Some(CreateDetectionPayload(s3.lat, s3.lon, s3.meta))
          /\ probe' =
               [fcAsked |-> drone.present, fc |-> tel,
                gpsAsked |-> askGps,
                gpsFix |-> IF askGps THEN fix ELSE None,
                gpsCache |-> IF askGps THEN CacheOf(gps) ELSE None,
                gpsRet |-> gc.ret,
                geoAsked |-> askGeo,
                ipAsked |-> askGeo /\ geo.ipAsked,
                gpsd |-> gpsd,
                ip |-> IF askGeo /\ geo.ipAsked THEN ip ELSE None,
                supplier |->
                  IF ~IsNone(s1.lat) THEN "flight_controller"
                  ELSE IF askGps /\ LocalGpsValid(gc.ret)
                  THEN (IF ~IsNone(fix) THEN "gps_fix" ELSE "gps_cache")
                  ELSE IF askGeo THEN geo.from
                  ELSE "none"]
          /\ UNCHANGED <<config, notLoc>>

\* EdgeDetectionPipeline.run, the finally block: gps.close().  The pipeline
\* object, and with it the handler and its cache, outlives the run.
CloseGps ==
    /\ gps.present /\ gps.connected
    /\ gps' = [gps EXCEPT !.connected = FALSE]
    /\ UNCHANGED <<config, drone, payload, probe, notLoc>>

\* EdgeDetectionPipeline.__init__: the pipeline after construction.
LocInit ==
    /\ config \in ConfigSpace
    /\ drone \in { [present |-> p, telemetry |-> InitialTelemetry, received |-> FALSE] :
                     p \in BOOL }
    /\ gps \in { NoGPS, NewGPSHandler(TRUE), NewGPSHandler(FALSE) }
    /\ payload = None
    /\ probe = NoProbe
    /\ SevIdle
    /\ StoreIdle
    /\ PipeIdle
    /\ ProjIdle /\ NmsIdle /\ CamIdle

LocNext == ResolveLocation \/ CloseGps

LocSpec == LocInit /\ [][LocNext]_vars

(***************************************************************************)
(* Location chain: properties.                                             *)
(***************************************************************************)
ProvenanceTags ==
    {"flight_controller", "local_gps_module", "cached_gps", "ip_geolocation",
     "default"}

Resolved == payload # None
Coordinate(p) == <<p.latitude, p.longitude>>

\* The flight controller yielded nothing usable in the last resolution.
FcYieldedNothing ==
    ~probe.fcAsked \/ Abs(probe.fc.latitude) <= ONE_DEGREE
\* The GPS handler yielded nothing usable: not polled, or no coordinate, or a
\* quality below GPS_MIN_QUALITY.
GpsYieldedNothing ==
    ~probe.gpsAsked \/ IsNone(probe.gpsRet.lat)
        \/ probe.gpsRet.quality < GPS_MIN_QUALITY
AllSourcesDown ==
    /\ FcYieldedNothing
    /\ ~probe.gpsAsked \/ IsNone(probe.gpsRet.lat)
    /\ IsNone(probe.gpsd)
    /\ IsNone(probe.ip)

\* C1: every resolution yields a latitude/longitude, and when every source is
\* down it is the static default coordinate with provenance 'default'.
C1_TotalWithDefaultProvenance ==
    Resolved =>
        /\ payload[1].latitude \in Int /\ payload[1].longitude \in Int
        /\ AllSourcesDown =>
              /\ Coordinate(payload[1]) = DefaultCoordinate
              /\ payload[1].location_source = Some("default")

\* C2: whenever the flight-controller telemetry reports |latitude| > 1 degree,
\* the resolution is tagged flight_controller and carries the telemetry
\* coordinate, whatever the GPS handler, its cache and the IP service hold.
C2_FlightControllerPriority ==
    (Resolved /\ probe.fcAsked /\ Abs(probe.fc.latitude) > ONE_DEGREE) =>
        /\ payload[1].location_source = Some("flight_controller")
        /\ Coordinate(payload[1]) = <<probe.fc.latitude, probe.fc.longitude>>

\* C2 witness: the flight controller won over a GPS handler holding a fix, in
\* the southern hemisphere.
C2_Witness ==
    /\ Resolved /\ probe.fcAsked /\ probe.fc.latitude < -ONE_DEGREE
    /\ gps.present /\ gps.connected /\ ~IsNone(gps.last_valid_lat)
    /\ payload[1].location_source = Some("flight_controller")

\* C20: a lower-priority source is consulted only after every higher-priority
\* source failed to yield a valid coordinate: the GPS handler is not polled
\* when the flight-controller telemetry is valid, and the geolocation fallback
\* (gpsd or the IP service) is not queried when the flight controller or the
\* GPS handler yielded a valid coordinate.
C20_LowerSourceOnlyAfterHigherFailed ==
    Resolved =>
        LET fcYielded == probe.fcAsked /\ Abs(probe.fc.latitude) > ONE_DEGREE
            gpsYielded == /\ probe.gpsAsked /\ ~IsNone(probe.gpsRet.lat)
                          /\ probe.gpsRet.quality >= GPS_MIN_QUALITY
        IN  /\ fcYielded => ~probe.gpsAsked
            /\ (fcYielded \/ gpsYielded) => (~probe.geoAsked /\ ~probe.ipAsked)
            /\ probe.ipAsked => probe.geoAsked

\* C20 witness: no valid flight-controller coordinate, the GPS handler was
\* polled and yielded one, and with the fallback enabled it was not queried.
C20_Witness ==
    /\ Resolved /\ config.FALLBACK_GEOLOCATION
    /\ probe.gpsAsked /\ ~IsNone(probe.gpsRet.lat)
    /\ probe.gpsRet.quality >= GPS_MIN_QUALITY
    /\ ~probe.geoAsked /\ ~probe.ipAsked

\* C3: flight controller unavailable and the receiver reports, on this poll, a
\* fix of sufficient quality and satellites: the resolution is tagged
\* local_gps_module and carries exactly the coordinate the receiver reported.
C3_LocalGpsFixPassedThrough ==
    (Resolved /\ FcYieldedNothing /\ probe.gpsAsked /\ ~IsNone(probe.gpsFix)
        /\ probe.gpsFix[1][3] >= GPS_MIN_QUALITY) =>
        /\ payload[1].location_source = Some("local_gps_module")
        /\ Coordinate(payload[1]) = <<probe.gpsFix[1][1], probe.gpsFix[1][2]>>

\* C4: flight controller unavailable, no valid fix on this poll, a fix cached
\* earlier: the cached coordinate is used only if GPS_USE_CACHED_IF_NO_FIX is
\* on, and is then tagged cached_gps with quality 0; it is never reported as
\* local_gps_module.
C4_CachedFixDegraded ==
    (Resolved /\ FcYieldedNothing /\ probe.gpsAsked /\ IsNone(probe.gpsFix)
        /\ ~IsNone(probe.gpsCache)) =>
        /\ payload[1].location_source # Some("local_gps_module")
        /\ probe.supplier = "gps_cache" =>
              /\ config.GPS_USE_CACHED_IF_NO_FIX
              /\ payload[1].location_source = Some("cached_gps")
              /\ payload[1].gps_quality = Some(0)

\* C21: after a poll of the GPS handler the cache holds exactly the most recent
\* valid fix: a poll with a valid fix overwrites the cache with that fix and
\* returns it; a poll without one leaves the cache as it was and returns the
\* cached fix, or no coordinate with quality 0 when nothing was ever cached.
C21_CacheHoldsMostRecentValidFix ==
    (Resolved /\ probe.gpsAsked) =>
        IF ~IsNone(probe.gpsFix)
        THEN /\ CacheOf(gps) = probe.gpsFix
             /\ <<probe.gpsRet.lat, probe.gpsRet.lon>> =
                    <<Some(probe.gpsFix[1][1]), Some(probe.gpsFix[1][2])>>
        ELSE /\ CacheOf(gps) = probe.gpsCache
             /\ IF IsNone(probe.gpsCache)
                THEN probe.gpsRet = [lat |-> None, lon |-> None, quality |-> 0]
                ELSE <<probe.gpsRet.lat, probe.gpsRet.lon>> =
                        <<Some(probe.gpsCache[1][1]), Some(probe.gpsCache[1][2])>>

\* The retention of C21 with the hemisphere left aside: coordinates compared
\* by magnitude.
Magnitudes(c) == IF IsNone(c) THEN None ELSE Some(<<Abs(c[1][1]), Abs(c[1][2]), c[1][3]>>)
CacheRetentionUpToSign ==
    (Resolved /\ probe.gpsAsked) =>
        IF ~IsNone(probe.gpsFix)
        THEN Magnitudes(CacheOf(gps)) = Magnitudes(probe.gpsFix)
        ELSE /\ CacheOf(gps) = probe.gpsCache
             /\ IF IsNone(probe.gpsCache)
                THEN probe.gpsRet = [lat |-> None, lon |-> None, quality |-> 0]
                ELSE <<probe.gpsRet.lat[1], probe.gpsRet.lon[1], probe.gpsRet.quality>> =
                        probe.gpsCache[1]

\* C29: provenance flight_controller is reported only for a position received
\* from the flight controller: never while no telemetry message has arrived
\* (drone.received records that one has).
C29_FlightControllerOnlyIfReceived ==
    (Resolved /\ payload[1].location_source = Some("flight_controller")) =>
        drone.received

\* C5: flight controller and GPS (cache included) yield nothing, IP
\* geolocation is enabled and answers with a pair: the resolution is tagged
\* ip_geolocation and carries exactly that pair.
C5_IpGeolocationPassedThrough ==
    (Resolved /\ FcYieldedNothing /\ GpsYieldedNothing
        /\ config.FALLBACK_GEOLOCATION /\ ~IsNone(probe.ip)) =>
        /\ payload[1].location_source = Some("ip_geolocation")
        /\ Coordinate(payload[1]) = probe.ip[1]

\* C5 witness: the spec's scenario, (12.97, 77.59) from the IP service with a
\* drone and a GPS handler present and both without a position.
C5_Witness ==
    /\ Resolved /\ probe.fcAsked /\ probe.gpsAsked
    /\ FcYieldedNothing /\ GpsYieldedNothing
    /\ probe.ip = Some(<<1297, 7759>>)
    /\ Coordinate(payload[1]) = <<1297, 7759>>

\* The tag that names each supplier of a coordinate.
TagOf(supplier) ==
    CASE supplier = "flight_controller" -> {"flight_controller"}
      [] supplier = "gps_fix" -> {"local_gps_module"}
      [] supplier = "gps_cache" -> {"cached_gps"}
      [] supplier = "ip" -> {"ip_geolocation"}
      [] supplier = "gpsd" -> ProvenanceTags
      [] OTHER -> {"default"}

\* C6: every resolution carries exactly one provenance tag, one of the five,
\* and the tag names the source that supplied the coordinate.
C6_OneTruthfulProvenanceTag ==
    Resolved =>
        /\ ~IsNone(payload[1].location_source)
        /\ payload[1].location_source[1] \in TagOf(probe.supplier)

(***************************************************************************)
(* Severity estimation: specification and properties.                      *)
(***************************************************************************)
LocIdle ==
    /\ config = [FALLBACK_GEOLOCATION |-> TRUE, USE_GPS_MODULE |-> FALSE,
                 GPS_USE_CACHED_IF_NO_FIX |-> TRUE]
    /\ drone = [present |-> FALSE, telemetry |-> InitialTelemetry, received |-> FALSE]
    /\ gps = NoGPS
    /\ payload = None
    /\ probe = NoProbe

SevInit ==
    /\ classifier \in BOOL
    /\ est = None
    /\ prev = None
    /\ LocIdle
    /\ StoreIdle
    /\ PipeIdle
    /\ ProjIdle /\ NmsIdle /\ CamIdle

SevNext == NewSeverityEstimator \/ EstimateSeverity \/ DroneDetectSeverity

SevSpec == SevInit /\ [][SevNext]_vars

Rank(severity) ==
    CASE severity = "Low" -> 1 [] severity = "Medium" -> 2
      [] severity = "High" -> 3 [] OTHER -> 0

Estimated == est # None

RECURSIVE GCD(_, _)
GCD(a, b) == IF b = 0 THEN a ELSE GCD(b, a % b)
\* a1/f1 < a2/f2 and a1/f1 = a2/f2 on fractions in lowest terms.
RatioLess(a1, f1, a2, f2) ==
    (a1 \div GCD(a1, f1)) * (f2 \div GCD(a2, f2))
        < (a2 \div GCD(a2, f2)) * (f1 \div GCD(a1, f1))
RatioEqual(a1, f1, a2, f2) == ~RatioLess(a1, f1, a2, f2) /\ ~RatioLess(a2, f2, a1, f1)
\* The estimate computed an area ratio: every DroneDetector box, and every
\* SeverityEstimator box whose crop is not empty.
HasAreaRatio(e) == e.by = "DroneDetector" \/ CropSize(e.frame_shape, e.det) > 0
Area(e) == e.det.w * e.det.h
FrameArea(e) == e.frame_shape[1] * e.frame_shape[2]

\* C8: Low exactly when area_ratio < 0.01, Medium exactly when
\* 0.01 <= area_ratio < 0.05, High otherwise; a ratio equal to a threshold falls
\* in the higher band.
C8_SeverityBands ==
    (Estimated /\ HasAreaRatio(est[1])) =>
        LET a == Area(est[1])
            f == FrameArea(est[1])
            sev == est[1].severity
        IN  /\ (sev = "Low") <=> (100 * a < f)
            /\ (sev = "Medium") <=> (100 * a >= f /\ 100 * a < 5 * f)
            /\ (sev = "High") <=> (100 * a >= 5 * f)

\* C8 witness: the 50x50 box in the 500x500 frame, area ratio exactly 0.01,
\* estimated Medium.
C8_Witness ==
    /\ Estimated /\ est[1].by = "SeverityEstimator"
    /\ est[1].frame_shape = SpecFrame
    /\ est[1].det = [x |-> 10, y |-> 10, w |-> 50, h |-> 50]
    /\ est[1].severity = "Medium"

\* C9: the label is a monotone non-decreasing function of the area ratio alone:
\* of two estimates the one with the smaller ratio never has the higher label,
\* and equal ratios get equal labels whether or not a classifier is loaded and
\* whatever it outputs.
C9_LabelMonotoneInAreaRatio ==
    (Estimated /\ prev # None /\ HasAreaRatio(est[1])
        /\ (prev[1].drone \/ ~prev[1].empty)) =>
        LET a1 == prev[1].area
            f1 == prev[1].frame_area
            a2 == Area(est[1])
            f2 == FrameArea(est[1])
            l1 == Rank(prev[1].severity)
            l2 == Rank(est[1].severity)
        IN  /\ l1 \in 1..3 /\ l2 \in 1..3
            /\ RatioLess(a1, f1, a2, f2) => l1 <= l2
            /\ RatioLess(a2, f2, a1, f1) => l1 >= l2
            /\ RatioEqual(a1, f1, a2, f2) => l1 = l2

\* C9 witness: two estimates of equal area ratio in different frames, the
\* earlier without a classifier, the later with a classifier that answered 1.0.
C9_Witness ==
    /\ Estimated /\ prev # None
    /\ est[1].by = "SeverityEstimator" /\ est[1].loaded
    /\ ~est[1].run.raises /\ est[1].run.conf = 1000
    /\ ~prev[1].loaded /\ ~prev[1].empty /\ ~prev[1].drone
    /\ CropSize(est[1].frame_shape, est[1].det) > 0
    /\ prev[1].frame_area # FrameArea(est[1])
    /\ RatioEqual(prev[1].area, prev[1].frame_area, Area(est[1]), FrameArea(est[1]))
    /\ est[1].severity = "Medium"

\* The heuristic score of a band.
BandScore(severity) ==
    CASE severity = "Low" -> 300 [] severity = "Medium" -> 600
      [] severity = "High" -> 900 [] OTHER -> 500

\* C10: when the loaded classifier raises during inference, estimate returns
\* the heuristic band score alone (0.3 / 0.6 / 0.9), as without a classifier.
C10_ClassifierErrorHeuristicOnly ==
    (Estimated /\ est[1].by = "SeverityEstimator" /\ est[1].loaded
        /\ est[1].run.raises) =>
        /\ est[1].score = BandScore(est[1].severity)
        /\ est[1].score = Estimate(est[1].frame_shape, est[1].det, FALSE, NoRun).score

(***************************************************************************)
(* Detection store: specification and properties.                          *)
(***************************************************************************)
StoreInit == StoreIdle /\ SevIdle /\ LocIdle /\ PipeIdle /\ ProjIdle /\ NmsIdle /\ CamIdle

StoreNext == SurveyFrame \/ PostDetection

StoreSpec == StoreInit /\ [][StoreNext]_vars

\* C7: after a frame is handled, every frame image having been written, the
\* store holds one new row per detection the frame yielded, and the count of
\* saved detections equals the number of rows actually added.
C7_OneRecordPerDetection ==
    /\ (lastFrame # None /\ lastFrame[1].written = lastFrame[1].detections) =>
            lastFrame[1].after - lastFrame[1].before = lastFrame[1].detections
    /\ detection_count = added

\* C22: a detection is located, persisted and counted if and only if its
\* confidence is at least the acceptance confidence 0.6: after a frame is
\* handled, every frame image having been written, the detection counter has
\* grown by the number of the frame's detections with confidence >= 0.6.
C22_CountsAcceptedDetectionsOnly ==
    (lastFrame # None /\ lastFrame[1].written = lastFrame[1].detections) =>
        lastFrame[1].counted =
            Cardinality({i \in 1..Len(lastFrame[1].confidences) :
                            lastFrame[1].confidences[i] >= ACCEPT_CONFIDENCE})

(***************************************************************************)
(* Frame loop of EdgeDetectionPipeline.run: specification and properties.   *)
(***************************************************************************)
PipeInit ==
    /\ settings \in [SAVE_DETECTIONS : BOOL, ENABLE_CLOUD_UPLOAD : BOOL,
                     output_video : BOOL]
    /\ pc = "ready"
    /\ exitPath = "none"
    /\ vs = NewVideoStream
    /\ writer = "none"
    /\ gpsConn \in {"none", "open"}
    /\ frame_count = 0
    /\ iter = None
    /\ LocIdle /\ SevIdle /\ StoreIdle /\ ProjIdle /\ NmsIdle /\ CamIdle

PipeNext == StartRun \/ CaptureStep \/ LoopIteration

PipeSpec == PipeInit /\ [][PipeNext]_vars

\* C11: the frame counter goes up by one per frame, the detector runs on a
\* frame exactly when the counter after the increment is a multiple of the
\* frame skip, and a skipped frame yields no detection and no persistence.
\* Stated of DroneDetector.run_survey.
C11_DetectorRunsOnMultiplesOfSkip ==
    lastFrame # None =>
        /\ lastFrame[1].counter = frames_processed
        /\ lastFrame[1].ran <=> (lastFrame[1].counter % DETECTION_FRAME_SKIP = 0)
        /\ ~lastFrame[1].ran =>
              (lastFrame[1].detections = 0 /\ lastFrame[1].after = lastFrame[1].before)

\* The same statement holds of EdgeDetectionPipeline.process_frame, which tests
\* the counter after incrementing it.
EdgeDetectorRunsOnMultiplesOfSkip ==
    iter # None =>
        /\ iter[1].counter = frame_count
        /\ iter[1].ran <=> (iter[1].counter % DETECTION_FRAME_SKIP = 0)
        /\ ~iter[1].ran =>
              /\ ~iter[1].annotated /\ iter[1].accepted = 0 /\ iter[1].estimates = 0
              /\ iter[1].images = 0 /\ iter[1].resolutions = 0 /\ iter[1].reports = <<>>

\* A fair run of the pipeline: the capture thread and the frame loop each keep
\* taking their turns; nobody is obliged to press 'q'.
PipeFairSpec == PipeSpec /\ WF_vars(CaptureStep) /\ WF_vars(LoopIteration)

\* C12: once the video source has reached end-of-stream, run() eventually
\* leaves its frame loop.
C12_EndOfStreamStops == (vs.eos /\ pc = "loop") ~> (pc = "done")

\* C13: however run() exits, the capture thread has been signalled to stop, the
\* capture device is released, an open writer is released and an open GPS
\* connection is closed.
C13_CleanupOnEveryExit ==
    pc = "done" =>
        /\ vs.thread => vs.stopped
        /\ ~vs.opened
        /\ writer # "open"
        /\ gpsConn # "open"

\* C17: at most one POST per accepted detection; the report counts as synced
\* exactly on status 200 or 201; any other status, a timeout or a connection
\* error is not retried and does not end the frame loop.
C17_OnePostNoRetry ==
    iter # None =>
        /\ Len(iter[1].reports) <= iter[1].accepted
        /\ \A i \in 1..Len(iter[1].reports) :
              /\ iter[1].reports[i].posts = 1
              /\ iter[1].reports[i].synced <=> (iter[1].reports[i].status \in {200, 201})
        /\ (iter[1].fault = "none" /\ iter[1].key = "none") =>
              (pc = "loop" /\ ~iter[1].raised /\ exitPath = "none")

\* C17 witness: a frame with two accepted detections whose POSTs failed, one
\* with a connection error and one with status 204, and the loop goes on.
C17_Witness ==
    /\ iter # None /\ iter[1].accepted = 2 /\ Len(iter[1].reports) = 2
    /\ iter[1].reports[1].status = 0 /\ ~iter[1].reports[1].synced
    /\ iter[1].reports[2].status = 204 /\ ~iter[1].reports[2].synced
    /\ iter[1].fault = "none" /\ iter[1].key = "none"
    /\ pc = "loop"

(***************************************************************************)
(* The detections table behind the dashboard: specification, properties.   *)
(***************************************************************************)
DbInit == StoreIdle /\ SevIdle /\ LocIdle /\ PipeIdle /\ ProjIdle /\ NmsIdle /\ CamIdle

DbNext == PostDetection \/ PutRepairStatus \/ GetHeatmap

DbSpec == DbInit /\ [][DbNext]_vars

\* C14: get_heatmap_data returns one entry per stored record, up to the limit,
\* each with that record's latitude, longitude and severity and the weight 1
\* for Low, 5 for Medium, 10 for High.
C14_HeatmapWeights ==
    response.op = "heatmap" =>
        /\ Len(response.data) = Min(Len(db), response.limit)
        /\ \E f \in [1..Len(response.data) -> 1..Len(db)] :
              /\ \A i, j \in 1..Len(response.data) : i # j => f[i] # f[j]
              /\ \A k \in 1..Len(response.data) :
                    /\ response.data[k].latitude = db[f[k]].latitude
                    /\ response.data[k].longitude = db[f[k]].longitude
                    /\ response.data[k].severity = db[f[k]].severity
        /\ \A k \in 1..Len(response.data) :
              /\ response.data[k].severity = Text("Low") => response.data[k].weight = 1
              /\ response.data[k].severity = Text("Medium") => response.data[k].weight = 5
              /\ response.data[k].severity = Text("High") => response.data[k].weight = 10

\* C14 witness: a heatmap of two stored records, Medium and High, weighing 5
\* and 10.
C14_Witness ==
    /\ response.op = "heatmap" /\ Len(response.data) = 2
    /\ \E k \in 1..2 : /\ response.data[k].severity = Text("Medium")
                       /\ response.data[k].weight = 5
    /\ \E k \in 1..2 : /\ response.data[k].severity = Text("High")
                       /\ response.data[k].weight = 10

\* The columns of a record that no operation may change.
Recorded(row) ==
    <<row.id, row.timestamp, row.latitude, row.longitude, row.severity, row.confidence>>

\* C15: the store is append-and-update only: no step removes a record or
\* reuses an id, and the only step that changes an existing record is
\* update_repair_status, which changes only that one record's repair status,
\* repair date and notes.
C15_AppendAndUpdateOnly ==
    [][ /\ Len(db') >= Len(db)
        /\ \A i \in 1..Len(db) : Recorded(db'[i]) = Recorded(db[i])
        /\ \A i, j \in 1..Len(db') : i # j => db'[i].id # db'[j].id
        /\ \A i \in (Len(db) + 1)..Len(db') : \A j \in 1..Len(db) : db'[i].id > db[j].id
        /\ (\E i \in 1..Len(db) : db'[i] # db[i]) =>
              /\ response'.op = "status"
              /\ Cardinality({i \in 1..Len(db) : db'[i] # db[i]}) = 1
      ]_vars

\* C15 witness: of two stored records the first has been marked completed and
\* the second is as it was added.
C15_Witness ==
    /\ Len(db) = 2
    /\ db[1].repair_status = "completed" /\ db[1].notes = Text("patched")
    /\ db[2].repair_status = "pending" /\ db[2].notes = Null
    /\ response.op = "status"

RepairStatuses == {"pending", "in_progress", "completed", "rejected"}

\* C16: every stored record's repair status is one of pending, in_progress,
\* completed, rejected.
C16_RepairStatusValues ==
    \A i \in 1..Len(db) : db[i].repair_status \in RepairStatuses

(***************************************************************************)
(* Ground projection: specification and properties.                        *)
(***************************************************************************)
ProjInit == ProjIdle /\ NmsIdle /\ CamIdle /\ LocIdle /\ SevIdle /\ StoreIdle /\ PipeIdle

ProjNext == SetTelemetry \/ ProjectPixel

ProjSpec == ProjInit /\ [][ProjNext]_vars

\* The survey planner on a vehicle whose telemetry is set between calls.
PlanNext == SetTelemetry \/ PlanMission

PlanSpec == ProjInit /\ [][PlanNext]_vars

\* C25: the waypoints are in lawnmower order: every two consecutive waypoints
\* of the list are neighbouring grid points (one pass apart in one direction,
\* the same in the other), and neighbouring passes are spaced by the ground
\* coverage reduced by the overlap percentage.
C25_LawnmowerOrder ==
    mission # None =>
        LET m == mission[1]
        IN  /\ \A k \in 1..(Len(m.waypoints) - 1) :
                  Abs(m.waypoints[k + 1].row - m.waypoints[k].row)
                    + Abs(m.waypoints[k + 1].column - m.waypoints[k].column) = 1
            /\ m.spacing_width = (m.ground[1] * (100 - m.overlap)) \div 100
            /\ m.spacing_length = (m.ground[2] * (100 - m.overlap)) \div 100

\* C18: at heading 0 and an altitude above 0 the centre pixel
\* (frame_width / 2, frame_height / 2) projects onto the vehicle's own
\* telemetry latitude and longitude.
C18_CentreProjectsToVehicle ==
    (/\ proj # None
     /\ proj[1].telemetry.heading = 0
     /\ proj[1].telemetry.altitude > 0
     /\ proj[1].pixel2 = proj[1].frame) =>
        proj[1].ground = <<proj[1].telemetry.latitude * 10000,
                           proj[1].telemetry.longitude * 10000>>

\* C18 witness: the centre of a frame of odd size projected from a southern,
\* western position at heading 0.
C18_Witness ==
    /\ proj # None
    /\ proj[1].telemetry.heading = 0 /\ proj[1].telemetry.altitude = DRONE_DEFAULT_ALTITUDE
    /\ proj[1].telemetry.latitude = -3345
    /\ proj[1].frame = <<5, 3>> /\ proj[1].pixel2 = <<5, 3>>
    /\ proj[1].ground = <<-33450000, -70660000>>

(***************************************************************************)
(* Non-maximum suppression: specification and properties.                  *)
(***************************************************************************)
NmsInit ==
    /\ nmsRaw \in RawOutputs
    /\ nmsKept = None
    /\ nmsAgain = None
    /\ LocIdle /\ SevIdle /\ StoreIdle /\ PipeIdle /\ ProjIdle /\ CamIdle

NmsNext == DetectInFrame \/ SuppressAgain

NmsSpec == NmsInit /\ [][NmsNext]_vars

Range(f) == { f[k] : k \in 1..Len(f) }

\* C19: suppression applied to the boxes it has itself produced returns the
\* same set of boxes.
C19_NmsIdempotent ==
    nmsAgain # None => Range(BoxesOf(nmsAgain[1])) = Range(BoxesOf(nmsKept[1]))

\* C19 witness: of three boxes in a chain of overlaps the middle one was
\* suppressed, and the second pass kept the two that were left.
C19_Witness ==
    /\ nmsAgain # None /\ Len(nmsRaw) = 3
    /\ Len(nmsKept[1]) = 2 /\ Len(nmsAgain[1]) = 2
    /\ nmsKept[1][1].bbox.x = 0 /\ nmsKept[1][2].bbox.x = 8

\* C27: add_detection reports failure only if no record was inserted: a POST
\* answered with the failure of add_detection (500) leaves the store as it
\* was, and a POST that adds a record is answered 201.
C27_FailureMeansNothingInserted ==
    [][PostDetection =>
          /\ response'.code = 500 => db' = db
          /\ db' # db => response'.code = 201]_vars

\* C30: update_repair_status reports success only if a record with the given
\* id exists: a PUT for an id that is not in the store is not answered with
\* success, and leaves every record unchanged.
C30_StatusUpdateNeedsRecord ==
    [][(PutRepairStatus /\ ~\E i \in 1..Len(db) : db[i].id = response'.id) =>
          (response'.code # 200 /\ db' = db)]_vars

\* C26: each captured frame is handed to process_frame at most once: a turn
\* of the frame loop never processes the frame the turn before it processed.
C26_FrameProcessedAtMostOnce == iter # None => ~iter[1].again

\* C28: every detection detect_in_frame returns has its 'center' at the
\* centre of its own bounding box.
C28_CenterOfOwnBox ==
    nmsKept # None =>
        \A k \in 1..Len(nmsKept[1]) :
            nmsKept[1][k].center = CenterOf(nmsKept[1][k].bbox)

(***************************************************************************)
(* VideoStream: specification and properties.                              *)
(***************************************************************************)
CamInit ==
    /\ stream \in {NewStream(TRUE), NewStream(FALSE)}
    /\ capture = NoThread
    /\ consumer = NoConsumer
    /\ LocIdle /\ SevIdle /\ StoreIdle /\ PipeIdle /\ ProjIdle /\ NmsIdle

CamNext ==
    \/ Start \/ UpdateTest \/ UpdateReadReturns \/ UpdateStore
    \/ Read \/ StopSignal \/ StopJoin \/ StopRelease

CamSpec == CamInit /\ [][CamNext]_vars

\* The capture thread is scheduled, and a call of cap.read() returns.
CamFairSpec ==
    CamSpec /\ WF_vars(UpdateTest) /\ WF_vars(UpdateReadReturns) /\ WF_vars(UpdateStore)

\* C23: the device is released only after the capture thread has stopped
\* using it: the thread never reads from the device, nor stores into the
\* latest-frame slot, after stop() has released the device.
C23_NoUseAfterRelease == capture.late = "no"

\* The liveness half of C23: once stop() has set the flag the capture thread
\* exits its loop.
StopLeadsToExit == stream.stopped ~> (capture.pc = "exited")

====
